---- MODULE Spec2Model ----
(***************************************************************************)
(* Model of guardai: guard/scanner.py (File Reader, Change Resolver, Scan  *)
(* Orchestrator), guard/clients.py (provider backends) and the scan entry  *)
(* of guard/cli.py.                                                        *)
(*                                                                         *)
(* A path is a sequence of components; an absolute path starts with "/".   *)
(* A text (str) is a sequence of fragments, the empty text being << >>;    *)
(* string concatenation is \o.  An optional value (None or a value) is a   *)
(* sequence of length 0 or 1.                                              *)
(***************************************************************************)
EXTENDS Integers, Sequences, FiniteSets, TLC

(* ------------------------------ bounds --------------------------------- *)
\* longest list of paths handed directly to read_files_and_generate_summary
MaxPaths == 3
\* largest number of names one `git diff --name-only` / pull request reports
MaxChanged == 2

(* --------------------------- the file system --------------------------- *)
\* the target directory /w, its sub-directory /w/w and the three file slots
WorkDir == <<"/", "w">>
SubDir == <<"/", "w", "w">>
RootDir == <<"/">>
FileSlots == { <<"/", "w", "a.py">>, <<"/", "w", "b.py">>, <<"/", "w", "w", "a.py">> }
Dirs == { RootDir, WorkDir, SubDir }

\* what a file slot can hold:
\*   text    regular file, UTF-8 text
\*   binary  regular file, open() succeeds, read() raises UnicodeDecodeError
\*   ioerr   regular file, open() succeeds, read() raises IOError
\*   noperm  regular file, open() raises IOError (PermissionError)
\*   special exists, neither regular file nor directory (fifo, socket)
\*   absent  nothing there
Kinds == { "text", "binary", "ioerr", "noperm", "special", "absent" }
RegularKinds == { "text", "binary", "ioerr", "noperm" }

VARIABLES
    fs,          \* file slot -> kind: the disk, fixed during a run
    gitEnv,      \* what `git` does for the target directory
    cwd,         \* the process working directory (os.getcwd())
    cwd0,        \* the working directory the last call started in
    op,          \* name of the last completed top-level call ("none" at start)
    args,        \* its arguments (a record, by operation)
    env,         \* what the outside world answered during the call (a record)
    result,      \* its return value
    raised,      \* "none", or the class of the exception it propagated
    events,      \* external effects of the call, in order
    backendArgs, \* the code summaries handed to ai_client.scan_code, in order
    client,      \* the backend object: its kind and its configuration
    sent,        \* the requests the backend sent to its provider, in order
    environ      \* os.environ: API-key variable -> None (unset) or Some(value)

vars == << fs, gitEnv, cwd, cwd0, op, args, env, result, raised, events, backendArgs,
           client, sent, environ >>

(* ------------------------------ os.path -------------------------------- *)
isabs(p) == Len(p) > 0 /\ p[1] = "/"

basename(p) == IF Len(p) = 0 THEN "" ELSE p[Len(p)]

\* os.path.join(a, b): an absolute b discards a
join(a, b) == IF isabs(b) THEN b ELSE a \o b

RECURSIVE DropDots(_)
DropDots(p) ==
    IF p = << >> THEN << >>
    ELSE IF Head(p) = "." THEN DropDots(Tail(p))
    ELSE << Head(p) >> \o DropDots(Tail(p))

\* the file a path denotes for a process whose working directory is c
Resolve(c, p) == DropDots(IF isabs(p) THEN p ELSE c \o p)

KindAt(f, c, p) ==
    LET q == Resolve(c, p)
    IN  IF q \in DOMAIN f THEN f[q]
        ELSE IF q \in Dirs THEN "dir"
        ELSE "absent"

isfile(f, c, p) == KindAt(f, c, p) \in RegularKinds

\* the bytes of a file, as text; distinct per file
ContentOf(q) ==
    IF q = <<"/", "w", "a.py">> THEN "x=1"
    ELSE IF q = <<"/", "w", "b.py">> THEN "y=2"
    ELSE "z=3"

(* ------------------------------ File Reader ---------------------------- *)
Header(p) == << "\n\nFile: ", basename(p), "\n" >>

\* what one iteration of the loop appends to code_summary
ReadOne(f, c, p) ==
    LET k == KindAt(f, c, p)
    IN  IF ~ isfile(f, c, p) THEN << >>
        ELSE IF k = "noperm" THEN << >>
        ELSE IF k \in { "binary", "ioerr" } THEN Header(p)
        ELSE Header(p) \o << ContentOf(Resolve(c, p)) >>

RECURSIVE read_files_and_generate_summary(_, _, _)
read_files_and_generate_summary(f, c, file_paths) ==
    IF file_paths = << >> THEN << >>
    ELSE ReadOne(f, c, Head(file_paths))
            \o read_files_and_generate_summary(f, c, Tail(file_paths))

(* ------------------------------ values --------------------------------- *)
None == << >>
Some(v) == << v >>

\* Python truthiness of an Optional[str] / Optional[int]
TruthyStr(x) == x # None /\ x[1] # ""
TruthyInt(x) == x # None /\ x[1] # 0

NotRepoMsg == << "Directory is not a valid Git repository." >>
TokenMsg == << "GitHub token is required", " for scanning PR changes." >>
NoChangesMsg == << "No changes detected in the directory." >>

\* the outcome of a call: return value, propagated exception, the external
\* effects in order, the working directory afterwards, the backend's inputs
Outcome(r, x, ev, c, b) ==
    [ result |-> r, raised |-> x, events |-> ev, cwd |-> c, backendArgs |-> b ]

(* -------------------------- the git executable ------------------------- *)
\* gitEnv: "repo"    /w is a Git working tree (and so is /w/w inside it)
\*         "notrepo" git runs, /w is not inside any repository
\*         "nogit"   the git executable cannot be started
GitEnvs == { "repo", "notrepo", "nogit" }

\* subprocess.check_output(["git", "-C", directory, "rev-parse", ...]):
\* "ok" exit status 0, "nonzero" CalledProcessError, "nostart" OSError
RevParse(g, c, directory) ==
    IF g = "nogit" THEN "nostart"
    ELSE IF g = "repo" /\ Resolve(c, directory) \in { WorkDir, SubDir } THEN "ok"
    ELSE "nonzero"

\* is_git_repo catches CalledProcessError only
is_git_repo(g, c, directory) ==
    LET x == RevParse(g, c, directory)
    IN  IF x = "ok" THEN [ ret |-> TRUE, raised |-> "none" ]
        ELSE IF x = "nonzero" THEN [ ret |-> FALSE, raised |-> "none" ]
        ELSE [ ret |-> FALSE, raised |-> "FileNotFoundError" ]

(* ------------------- str.strip and str.split("\n") --------------------- *)
\* the standard output of git diff is a sequence of tokens: a reported name
\* (a relative path), a newline, or a blank
NL == << "\n" >>
SP == << " " >>
IsSpace(t) == t \in { NL, SP }

RECURSIVE lstrip(_)
lstrip(s) ==
    IF s = << >> THEN << >>
    ELSE IF IsSpace(Head(s)) THEN lstrip(Tail(s))
    ELSE s

RECURSIVE rstrip(_)
rstrip(s) ==
    IF s = << >> THEN << >>
    ELSE IF IsSpace(s[Len(s)]) THEN rstrip(SubSeq(s, 1, Len(s) - 1))
    ELSE s

strip(s) == rstrip(lstrip(s))

\* s.split("\n"): the lines of s, each the path its tokens spell
RECURSIVE SplitFrom(_, _)
SplitFrom(s, line) ==
    IF s = << >> THEN << line >>
    ELSE IF Head(s) = NL THEN << line >> \o SplitFrom(Tail(s), << >>)
    ELSE SplitFrom(Tail(s), line \o Head(s))

split(s) == SplitFrom(s, << >>)

(* --------------------------- Change Resolver --------------------------- *)
\* get_changed_files without the `if result.strip()` guard
get_changed_files_unguarded(c, directory, diff) ==
    [ cwd |-> Resolve(c, directory),
      events |-> << "chdir", "diff" >>,
      changed |-> IF diff.fails THEN << >> ELSE split(strip(diff.out)) ]

\* get_changed_files that changes back to the previous working directory
get_changed_files_restoring(c, directory, diff) ==
    LET stripped == strip(diff.out)
    IN  [ cwd |-> c,
          events |-> << "chdir", "diff" >>,
          changed |-> IF diff.fails THEN << >>
                      ELSE IF stripped # << >> THEN split(stripped)
                      ELSE << >> ]

\* get_changed_files: chdir, then git diff --name-only; diff is the answer of
\* the subprocess: [ fails |-> BOOLEAN, out |-> tokens ]
get_changed_files(c, directory, diff) ==
    LET stripped == strip(diff.out)
    IN  [ cwd |-> Resolve(c, directory),
          events |-> << "chdir", "diff" >>,
          changed |-> IF diff.fails THEN << >>
                      ELSE IF stripped # << >> THEN split(stripped)
                      ELSE << >> ]

\* fetch_changed_files_from_repo that goes on after a failed validity check
fetch_changed_files_from_repo_unchecked(g, c, directory, diff) ==
    LET chk == is_git_repo(g, c, directory)
        loc == get_changed_files(c, directory, diff)
    IN  IF chk.raised # "none"
        THEN [ raised |-> chk.raised, msg |-> << >>, changed |-> << >>,
               cwd |-> c, events |-> << "rev-parse" >> ]
        ELSE [ raised |-> "none", msg |-> << >>, changed |-> loc.changed,
               cwd |-> loc.cwd, events |-> << "rev-parse" >> \o loc.events ]

\* fetch_changed_files_from_repo
fetch_changed_files_from_repo(g, c, directory, diff) ==
    LET chk == is_git_repo(g, c, directory)
        loc == get_changed_files(c, directory, diff)
    IN  IF chk.raised # "none"
        THEN [ raised |-> chk.raised, msg |-> << >>, changed |-> << >>,
               cwd |-> c, events |-> << "rev-parse" >> ]
        ELSE IF ~ chk.ret
        THEN [ raised |-> "ValueError", msg |-> NotRepoMsg, changed |-> << >>,
               cwd |-> c, events |-> << "rev-parse" >> ]
        ELSE [ raised |-> "none", msg |-> << >>, changed |-> loc.changed,
               cwd |-> loc.cwd, events |-> << "rev-parse" >> \o loc.events ]

\* get_pr_changed_files: pr is the answer of the code-hosting API:
\* [ fails |-> BOOLEAN, files |-> names ]
get_pr_changed_files(pr) ==
    IF pr.fails
    THEN [ raised |-> "GithubException", changed |-> << >>, events |-> << "github" >> ]
    ELSE [ raised |-> "none", changed |-> pr.files, events |-> << "github" >> ]

\* fetch_changed_files_from_pr that asks the API before it looks at the token
fetch_changed_files_from_pr_late(c, github_token, pr) ==
    LET api == get_pr_changed_files(pr)
    IN  IF api.raised # "none"
        THEN [ raised |-> api.raised, msg |-> << >>, changed |-> << >>,
               cwd |-> c, events |-> api.events ]
        ELSE IF ~ TruthyStr(github_token)
        THEN [ raised |-> "ValueError", msg |-> TokenMsg, changed |-> << >>,
               cwd |-> c, events |-> api.events ]
        ELSE [ raised |-> "none", msg |-> << >>, changed |-> api.changed,
               cwd |-> c, events |-> api.events ]

\* fetch_changed_files_from_pr
fetch_changed_files_from_pr(c, github_token, pr) ==
    LET api == get_pr_changed_files(pr)
    IN  IF ~ TruthyStr(github_token)
        THEN [ raised |-> "ValueError", msg |-> TokenMsg, changed |-> << >>,
               cwd |-> c, events |-> << >> ]
        ELSE [ raised |-> api.raised, msg |-> << >>, changed |-> api.changed,
               cwd |-> c, events |-> api.events ]

(* -------------------------- Scan Orchestrator -------------------------- *)
\* generate_code_summary: the paths handed to the File Reader
JoinAll(directory, changed_files) ==
    [ i \in 1..Len(changed_files) |-> join(directory, changed_files[i]) ]

generate_code_summary(f, c, directory, changed_files) ==
    read_files_and_generate_summary(f, c, JoinAll(directory, changed_files))

\* `if repo or pr_number`
UseRemote_or(repo, pr_number) == TruthyStr(repo) \/ TruthyInt(pr_number)

\* the strategy scan_changes selects: `if repo and pr_number`
UseRemote(repo, pr_number) == TruthyStr(repo) /\ TruthyInt(pr_number)

\* scan_changes(directory, ai_client, repo, pr_number, github_token); e holds
\* the answers of git, of the code-hosting API and of the backend
scan_changes(f, g, c, a, e) ==
    LET fetched == IF UseRemote(a.repo, a.pr_number)
                   THEN fetch_changed_files_from_pr(c, a.github_token, e.pr)
                   ELSE fetch_changed_files_from_repo(g, c, a.directory, e.diff)
        summary == generate_code_summary(f, fetched.cwd, a.directory, fetched.changed)
    IN  IF fetched.raised = "ValueError"
        THEN Outcome(fetched.msg, "none", fetched.events, fetched.cwd, << >>)
        ELSE IF fetched.raised # "none"
        THEN Outcome(<< >>, fetched.raised, fetched.events, fetched.cwd, << >>)
        ELSE IF fetched.changed = << >>
        THEN Outcome(NoChangesMsg, "none", fetched.events, fetched.cwd, << >>)
        ELSE Outcome(e.reply, "none",
                     fetched.events \o << "reader", "scan_code" >>,
                     fetched.cwd, << summary >>)

\* os.walk(directory), top-down; the entries of one directory come in the
\* order the operating system lists them (abFirst: a.py before b.py)
IsPrefix(p, q) == Len(p) <= Len(q) /\ SubSeq(q, 1, Len(p)) = p

NamesIn(d, abFirst) ==
    IF d = WorkDir THEN (IF abFirst THEN << "a.py", "b.py" >> ELSE << "b.py", "a.py" >>)
    ELSE IF d = SubDir THEN << "a.py" >>
    ELSE << >>

\* the files os.walk reports in directory d, as os.path.join(root, file)
WalkDir(f, top, directory, d, abFirst) ==
    LET root == directory \o SubSeq(d, Len(top) + 1, Len(d))
        names == SelectSeq(NamesIn(d, abFirst), LAMBDA n : f[d \o << n >>] # "absent")
    IN  IF IsPrefix(top, d)
        THEN [ i \in 1..Len(names) |-> join(root, << names[i] >>) ]
        ELSE << >>

walk(f, c, directory, abFirst) ==
    LET top == Resolve(c, directory)
    IN  WalkDir(f, top, directory, RootDir, abFirst)
            \o WalkDir(f, top, directory, WorkDir, abFirst)
            \o WalkDir(f, top, directory, SubDir, abFirst)

\* scan_files that returns early when nothing was read
scan_files_skip_empty(f, c, a, e) ==
    LET file_paths == walk(f, c, a.directory, e.abFirst)
        code_summary == read_files_and_generate_summary(f, c, file_paths)
    IN  IF code_summary = << >>
        THEN Outcome(<< >>, "none", << "walk", "reader" >>, c, << >>)
        ELSE Outcome(e.reply, "none", << "walk", "reader", "scan_code" >>, c,
                     << code_summary >>)

\* scan_files(directory, ai_client)
scan_files(f, c, a, e) ==
    LET file_paths == walk(f, c, a.directory, e.abFirst)
        code_summary == read_files_and_generate_summary(f, c, file_paths)
    IN  Outcome(e.reply, "none", << "walk", "reader", "scan_code" >>, c,
                << code_summary >>)

\* cli.scan(args, ai_client)
scan(f, g, c, a, e) ==
    IF a.changes_only
    THEN scan_changes(f, g, c,
            [ directory |-> a.directory,
              repo |-> IF TruthyStr(a.repo) THEN a.repo ELSE None,
              pr_number |-> IF TruthyInt(a.pr_number) THEN a.pr_number ELSE None,
              github_token |-> IF TruthyStr(a.github_token) THEN a.github_token ELSE None ],
            e)
    ELSE scan_files(f, c, a, e)

(* --------------------------- Provider Backend -------------------------- *)
\* a JSON value as response.json() returns it
JNull == [ t |-> "null" ]
JStr(text) == [ t |-> "str", s |-> text ]
JList == [ t |-> "list" ]
JObj(members) == [ t |-> "obj", m |-> members ]
EmptyDict == JObj(<< >>)

\* dict.get(key, default); only a dict has the method
HasGet(j) == j.t = "obj"
dict_get(j, key, default) == IF key \in DOMAIN j.m THEN j.m[key] ELSE default

SystemPersona == << "You are an expert in software security analysis, ..." >>
GooglePersona == << "You are a specialist in application security, ... Here is the code:" >>
CustomPersona == << "You are an experienced application security specialist, ... Here is the code you need to review:" >>

NoContentMsg == << "No response content." >>
HostedError(message) == << "Error occurred: ", message >>
ConnectError(message) == << "Error occurred while connecting to the server: ", message >>

\* the outcome of a backend call: return value, propagated exception, the
\* request that went out
ClientOutcome(r, x, q) == [ result |-> r, raised |-> x, sent |-> q ]

\* a chat request with the persona folded into the one user message
ChatRequest_merged(model, code_summary) ==
    [ model |-> model,
      messages |-> << [ role |-> "user",
                        content |-> SystemPersona \o code_summary ] >> ]

\* the request of the two chat-style clients
ChatRequest(model, code_summary) ==
    [ model |-> model,
      messages |-> << [ role |-> "system", content |-> SystemPersona ],
                      [ role |-> "user", content |-> code_summary ] >> ]

\* ans is the provider's answer: [ exc |-> None or Some(message),
\* choices |-> the texts of the response's choices ]
\* OpenAIClient.scan_code
OpenAIClient_scan_code(self, code_summary, ans) ==
    LET req == ChatRequest(self.model, code_summary)
    IN  IF ans.exc # None
        THEN ClientOutcome(HostedError(ans.exc[1]), "none", << req >>)
        ELSE IF ans.choices = << >>
        THEN ClientOutcome(HostedError("list index out of range"), "none", << req >>)
        ELSE ClientOutcome(ans.choices[1], "none", << req >>)

\* GoogleClient.scan_code: one prompt, persona and code concatenated;
\* response.text raises ValueError when the response has no candidate
GoogleClient_scan_code(self, code_summary, ans) ==
    LET req == [ model |-> self.model, prompt |-> GooglePersona \o code_summary ]
    IN  IF ans.exc # None
        THEN ClientOutcome(HostedError(ans.exc[1]), "none", << req >>)
        ELSE IF ans.choices = << >>
        THEN ClientOutcome(HostedError("response has no valid part"), "none", << req >>)
        ELSE ClientOutcome(ans.choices[1], "none", << req >>)

\* GroqClient.scan_code with the reply extracted outside the try block
GroqClient_scan_code_outside(self, code_summary, ans) ==
    LET req == ChatRequest(self.model, code_summary)
    IN  IF ans.exc # None
        THEN ClientOutcome(HostedError(ans.exc[1]), "none", << req >>)
        ELSE IF ans.choices = << >>
        THEN ClientOutcome(<< >>, "IndexError", << req >>)
        ELSE ClientOutcome(ans.choices[1], "none", << req >>)

\* GroqClient.scan_code
GroqClient_scan_code(self, code_summary, ans) ==
    LET req == ChatRequest(self.model, code_summary)
    IN  IF ans.exc # None
        THEN ClientOutcome(HostedError(ans.exc[1]), "none", << req >>)
        ELSE IF ans.choices = << >>
        THEN ClientOutcome(HostedError("list index out of range"), "none", << req >>)
        ELSE ClientOutcome(ans.choices[1], "none", << req >>)

\* CustomAIClient.__init__
CustomAIClient(model, host, port, token, endpoint) ==
    [ kind |-> "custom", model |-> model, host |-> host, port |-> port,
      token |-> token, endpoint |-> endpoint,
      base_url |-> << host, ":", port, endpoint >> ]

\* the three hosted clients as constructed with an API key in the environment
HostedClient(kind, model, api_key) ==
    [ kind |-> kind, model |-> model, api_key |-> api_key ]

HttpTimeout == 120

\* `except requests.exceptions.ConnectionError`
IsConnectionError(x) == x = "ConnectionError"

\* the classes requests.exceptions.RequestException covers
IsRequestException(x) == x \in { "ConnectionError", "Timeout", "HTTPError" }

\* CustomAIClient.scan_code: ans is the answer to requests.post:
\* [ exc |-> None or Some(class), status |-> HTTP status, body |-> JSON ]
CustomAIClient_scan_code(self, code_summary, ans) ==
    LET req == [ url |-> self.base_url,
                 headers |-> [ Authorization |->
                                 IF TruthyStr(self.token)
                                 THEN << "Bearer ", self.token[1] >> ELSE << >> ],
                 json |-> [ model |-> self.model,
                            messages |-> << [ role |-> "user",
                                              content |-> CustomPersona \o code_summary ] >> ],
                 timeout |-> HttpTimeout ]
        thrown == IF ans.exc # None THEN ans.exc[1]
                  ELSE IF ans.status >= 400 THEN "HTTPError"
                  ELSE IF ~ HasGet(ans.body) THEN "AttributeError"
                  ELSE IF ~ HasGet(dict_get(ans.body, "message", EmptyDict))
                  THEN "AttributeError"
                  ELSE "none"
    IN  IF thrown = "none"
        THEN ClientOutcome(dict_get(dict_get(ans.body, "message", EmptyDict),
                                    "content", JStr(NoContentMsg)),
                           "none", << req >>)
        ELSE IF IsRequestException(thrown)
        THEN ClientOutcome(JStr(ConnectError(thrown)), "none", << req >>)
        ELSE ClientOutcome(JNull, thrown, << req >>)

(* ------------------- construction of the backends --------------------- *)
EnvVars == { "OPENAI_API_KEY", "GEMINI_API_KEY", "GROQ_API_KEY" }
NoKeys == [ v \in EnvVars |-> None ]

\* no backend object
NoClient == [ kind |-> "none" ]

\* the outcome of a construction: the object, the exception, the provider
\* library objects created on the way
Built(obj, x, ev) == [ client |-> obj, raised |-> x, events |-> ev ]

\* OpenAIClient.__init__ testing `self.api_key is None` only
OpenAIClient_init_unset_only(model, environment) ==
    LET api_key == environment["OPENAI_API_KEY"]
    IN  IF api_key = None
        THEN Built(NoClient, "ValueError", << >>)
        ELSE Built(HostedClient("openai", model, api_key[1]), "none",
                   << "openai.OpenAI" >>)

\* OpenAIClient.__init__
OpenAIClient_init(model, environment) ==
    LET api_key == environment["OPENAI_API_KEY"]
    IN  IF ~ TruthyStr(api_key)
        THEN Built(NoClient, "ValueError", << >>)
        ELSE Built(HostedClient("openai", model, api_key[1]), "none",
                   << "openai.OpenAI" >>)

\* GoogleClient.__init__
GoogleClient_init(model, environment) ==
    LET api_key == environment["GEMINI_API_KEY"]
    IN  IF ~ TruthyStr(api_key)
        THEN Built(NoClient, "ValueError", << >>)
        ELSE Built(HostedClient("google", model, api_key[1]), "none",
                   << "genai.configure", "genai.GenerativeModel" >>)

\* GroqClient.__init__
GroqClient_init(model, environment) ==
    LET api_key == environment["GROQ_API_KEY"]
    IN  IF ~ TruthyStr(api_key)
        THEN Built(NoClient, "ValueError", << >>)
        ELSE Built(HostedClient("groq", model, api_key[1]), "none",
                   << "groq.Groq" >>)

(* --------------------------------- CLI --------------------------------- *)
\* default_models with the first entry copied to all three
default_models_copied(provider) == "gpt-4o-mini"

\* initialize_client: default_models[provider]
default_models(provider) ==
    IF provider = "openai" THEN "gpt-4o-mini"
    ELSE IF provider = "google" THEN "gemini-pro"
    ELSE "llama3-8b-8192"

\* initialize_client(provider, model, host, port, token, endpoint)
initialize_client(provider, model, host, port, token, endpoint, environment) ==
    LET hosted_model == IF TruthyStr(model) THEN model[1] ELSE default_models(provider)
    IN  IF provider = "custom"
        THEN Built(CustomAIClient(model, host, port, token, endpoint), "none", << >>)
        ELSE IF provider = "openai" THEN OpenAIClient_init(hosted_model, environment)
        ELSE IF provider = "google" THEN GoogleClient_init(hosted_model, environment)
        ELSE GroqClient_init(hosted_model, environment)

\* format_as_markdown(result)
format_as_markdown(r) == << "## Code Security Analysis Results\n" >> \o r

\* main(): a holds the parsed arguments; the outcome also names the client
main(f, g, c, a, e, environment) ==
    LET built == initialize_client(a.provider, a.model, a.host, a.port, a.token,
                                   a.endpoint, environment)
        scanned == scan(f, g, c, a, e)
    IN  IF built.raised # "none"
        THEN [ out |-> Outcome(<< >>, built.raised, built.events, c, << >>),
               client |-> built.client ]
        ELSE IF scanned.raised # "none"
        THEN [ out |-> Outcome(<< >>, scanned.raised,
                               built.events \o scanned.events,
                               scanned.cwd, scanned.backendArgs),
               client |-> built.client ]
        ELSE [ out |-> Outcome(format_as_markdown(scanned.result), "none",
                               built.events \o scanned.events \o << "display_markdown" >>,
                               scanned.cwd, scanned.backendArgs),
               client |-> built.client ]

(* --------------------- inputs and outside answers ---------------------- *)
SeqsUpTo(S, n) == UNION { [ 1..k -> S ] : k \in 0..n }

NoRepeat(s) == \A i, j \in 1..Len(s) : s[i] = s[j] => i = j

\* the paths a caller hands to the File Reader
ReaderPaths == FileSlots \cup { WorkDir }

\* the forms of the directory argument: absolute, ".", relative
DirArgs == { WorkDir, << "." >>, << "w" >> }

RepoArgs == { None, Some(""), Some("o/r") }
PrArgs == { None, Some(0), Some(1) }
TokenArgs == { None, Some(""), Some("tok") }

\* the names git diff --name-only and the pull request report, relative to
\* the top of the repository
ChangedNames == { << "a.py" >>, << "b.py" >>, << "w", "a.py" >> }
NameLists == { s \in SeqsUpTo(ChangedNames, MaxChanged) : NoRepeat(s) }

\* git prints each name followed by a newline
RECURSIVE GitFormat(_)
GitFormat(names) ==
    IF names = << >> THEN << >>
    ELSE << Head(names), NL >> \o GitFormat(Tail(names))

NoDiff == [ fails |-> FALSE, out |-> << >> ]
DiffAnswers ==
    { [ fails |-> TRUE, out |-> << >> ], [ fails |-> FALSE, out |-> << NL >> ] }
        \cup { [ fails |-> FALSE, out |-> GitFormat(n) ] : n \in NameLists }

NoPr == [ fails |-> FALSE, files |-> << >> ]
PrAnswers ==
    { [ fails |-> TRUE, files |-> << >> ] }
        \cup { [ fails |-> FALSE, files |-> n ] : n \in NameLists }

\* what the stub backend's scan_code returns
Reply1 == << "Scan result" >>
Replies == { Reply1, << "No issues found." >> }

Env(d, p, o, r) == [ diff |-> d, pr |-> p, abFirst |-> o, reply |-> r ]
NoEnv == Env(NoDiff, NoPr, TRUE, Reply1)

ChangeArgs ==
    [ directory : DirArgs, repo : RepoArgs, pr_number : PrArgs,
      github_token : TokenArgs ]

CliArgs ==
    [ changes_only : BOOLEAN, directory : DirArgs, repo : RepoArgs,
      pr_number : PrArgs, github_token : TokenArgs ]

\* the test double the scanner is driven with
StubClient == [ kind |-> "stub" ]

(* ------------------------------- actions ------------------------------- *)
Idle == op = "none"

Finish(name, a, e, out) ==
    /\ op' = name
    /\ args' = a
    /\ env' = e
    /\ result' = out.result
    /\ raised' = out.raised
    /\ events' = out.events
    /\ backendArgs' = out.backendArgs
    /\ cwd' = out.cwd
    /\ cwd0' = cwd
    /\ sent' = << >>
    /\ UNCHANGED << fs, gitEnv, client, environ >>

\* a direct call of read_files_and_generate_summary(file_paths)
CallReadFiles ==
    /\ Idle
    /\ \E file_paths \in SeqsUpTo(ReaderPaths, MaxPaths) :
          Finish("read_files_and_generate_summary",
                 [ file_paths |-> file_paths ], NoEnv,
                 Outcome(read_files_and_generate_summary(fs, cwd, file_paths),
                         "none", << >>, cwd, << >>))

\* the answers the outside world can give during scan_changes(a): git diff is
\* run only after a passed validity check, the API only with a token
DiffChoices(a) ==
    IF ~ UseRemote(a.repo, a.pr_number) /\ RevParse(gitEnv, cwd, a.directory) = "ok"
    THEN DiffAnswers ELSE { NoDiff }

PrChoices(a) ==
    IF UseRemote(a.repo, a.pr_number) /\ TruthyStr(a.github_token)
    THEN PrAnswers ELSE { NoPr }

\* scan_changes(directory, ai_client, repo, pr_number, github_token)
CallScanChanges ==
    /\ Idle
    /\ \E a \in ChangeArgs : \E d \in DiffChoices(a) : \E p \in PrChoices(a) :
       \E r \in Replies :
          LET e == Env(d, p, TRUE, r)
              out == scan_changes(fs, gitEnv, cwd, a, e)
          IN  /\ r = Reply1 \/ out.backendArgs # << >>
              /\ Finish("scan_changes", a, e, out)

\* scan_files(directory, ai_client)
CallScanFiles ==
    /\ Idle
    /\ \E directory \in DirArgs : \E o \in BOOLEAN : \E r \in Replies :
          LET a == [ directory |-> directory ]
              e == Env(NoDiff, NoPr, o, r)
          IN  Finish("scan_files", a, e, scan_files(fs, cwd, a, e))

\* cli.scan(args, ai_client)
CallScan ==
    /\ Idle
    /\ \E a \in CliArgs : \E o \in BOOLEAN : \E r \in Replies :
       \E d \in (IF a.changes_only THEN DiffChoices(a) ELSE { NoDiff }) :
       \E p \in (IF a.changes_only THEN PrChoices(a) ELSE { NoPr }) :
          LET e == Env(d, p, o, r)
              out == scan(fs, gitEnv, cwd, a, e)
          IN  /\ r = Reply1 \/ out.backendArgs # << >>
              /\ o \/ ~ a.changes_only
              /\ Finish("scan", a, e, out)

\* a direct call of is_git_repo(directory)
CallIsGitRepo ==
    /\ Idle
    /\ \E directory \in DirArgs :
          LET chk == is_git_repo(gitEnv, cwd, directory)
          IN  Finish("is_git_repo", [ directory |-> directory ], NoEnv,
                     Outcome(chk.ret, chk.raised, << "rev-parse" >>, cwd, << >>))

\* the caller is done with the return value: the observations of the call
\* are dropped, the process and its working directory live on
Continue ==
    /\ ~ Idle
    /\ op' = "none"
    /\ args' = << >>
    /\ env' = NoEnv
    /\ result' = << >>
    /\ raised' = "none"
    /\ events' = << >>
    /\ backendArgs' = << >>
    /\ sent' = << >>
    /\ cwd0' = cwd
    /\ UNCHANGED << fs, gitEnv, cwd, client, environ >>

InitCall ==
    /\ cwd0 = cwd
    /\ op = "none"
    /\ args = << >>
    /\ env = NoEnv
    /\ result = << >>
    /\ raised = "none"
    /\ events = << >>
    /\ backendArgs = << >>
    /\ sent = << >>

(* ------------------------ File Reader, on its own ---------------------- *)
InitReader ==
    /\ fs \in [ FileSlots -> Kinds ]
    /\ gitEnv = "repo"
    /\ cwd = RootDir
    /\ client = StubClient
    /\ environ = NoKeys
    /\ InitCall

NextReader == CallReadFiles \/ Continue

SpecReader == InitReader /\ [][NextReader]_vars

(* ------------------------------ the backends --------------------------- *)
\* most choices a provider response carries
MaxChoices == 2

CodeSummaries == { << >>, Header(<< "a.py" >>) \o << "x=1" >> }
ReplyTexts == { << "Looks safe." >>, << "SQL injection in a.py" >> }
ProviderErrors == { "rate limit exceeded", "connection reset" }

ChatAnswers ==
    { [ exc |-> Some(m), choices |-> << >> ] : m \in ProviderErrors }
        \cup { [ exc |-> None, choices |-> c ] : c \in SeqsUpTo(ReplyTexts, MaxChoices) }

\* the JSON bodies a custom server answers with
JsonBodies ==
    { EmptyDict,
      JList,
      JObj("message" :> JNull),
      JObj("message" :> JStr(<< "hello" >>)),
      JObj("message" :> EmptyDict),
      JObj("message" :> JObj("role" :> JStr(<< "assistant" >>))),
      JObj("message" :> JObj("content" :> JNull)),
      JObj("other" :> JStr(<< "x" >>)) }
        \cup { JObj("message" :> JObj("content" :> JStr(t))) : t \in ReplyTexts }

PostAnswers ==
    { [ exc |-> Some(x), status |-> 0, body |-> JNull ] : x \in { "ConnectionError", "Timeout" } }
        \cup { [ exc |-> None, status |-> st, body |-> EmptyDict ] : st \in { 404, 500 } }
        \cup { [ exc |-> None, status |-> 200, body |-> b ] : b \in JsonBodies }

Clients ==
    { HostedClient(k, m, "sk-key") :
        k \in { "openai", "google", "groq" }, m \in { "default-model", "other-model" } }
        \cup { CustomAIClient(m, "http://localhost", "5000", t, "/api/v1/scan") :
                 m \in { "default-model", "other-model" }, t \in { None, Some("tok") } }

FinishClient(name, code_summary, ans, out) ==
    /\ op' = name
    /\ args' = [ code_summary |-> code_summary ]
    /\ env' = ans
    /\ result' = out.result
    /\ raised' = out.raised
    /\ sent' = out.sent
    /\ events' = << >>
    /\ backendArgs' = << >>
    /\ cwd0' = cwd
    /\ UNCHANGED << fs, gitEnv, cwd, client, environ >>

CallOpenAI ==
    /\ Idle
    /\ client.kind = "openai"
    /\ \E code_summary \in CodeSummaries : \E ans \in ChatAnswers :
          FinishClient("OpenAIClient.scan_code", code_summary, ans,
                       OpenAIClient_scan_code(client, code_summary, ans))

CallGoogle ==
    /\ Idle
    /\ client.kind = "google"
    /\ \E code_summary \in CodeSummaries : \E ans \in ChatAnswers :
          FinishClient("GoogleClient.scan_code", code_summary, ans,
                       GoogleClient_scan_code(client, code_summary, ans))

CallGroq ==
    /\ Idle
    /\ client.kind = "groq"
    /\ \E code_summary \in CodeSummaries : \E ans \in ChatAnswers :
          FinishClient("GroqClient.scan_code", code_summary, ans,
                       GroqClient_scan_code(client, code_summary, ans))

CallCustom ==
    /\ Idle
    /\ client.kind = "custom"
    /\ \E code_summary \in CodeSummaries : \E ans \in PostAnswers :
          FinishClient("CustomAIClient.scan_code", code_summary, ans,
                       CustomAIClient_scan_code(client, code_summary, ans))

InitClients ==
    /\ fs = [ p \in FileSlots |-> "text" ]
    /\ gitEnv = "repo"
    /\ cwd = WorkDir
    /\ client \in Clients
    /\ environ = [ v \in EnvVars |-> Some("sk-key") ]
    /\ InitCall

NextClients == CallOpenAI \/ CallGoogle \/ CallGroq \/ CallCustom \/ Continue

SpecClients == InitClients /\ [][NextClients]_vars

(* ------------------------------ the scanner ---------------------------- *)
\* the disks of the scanner runs: /w/a.py of any kind the scanner tells apart
ScanFs ==
    { f \in [ FileSlots -> Kinds ] :
        /\ f[<<"/", "w", "a.py">>] \in { "text", "binary", "special", "absent" }
        /\ f[<<"/", "w", "b.py">>] \in { "text", "absent" }
        /\ f[<<"/", "w", "w", "a.py">>] \in { "text", "absent" } }

Init ==
    /\ fs \in ScanFs
    /\ gitEnv \in GitEnvs
    /\ cwd \in { RootDir, WorkDir }
    /\ client = StubClient
    /\ environ = NoKeys
    /\ InitCall

Next == CallScanFiles \/ CallScanChanges \/ CallScan \/ CallIsGitRepo \/ Continue

Spec == Init /\ [][Next]_vars

(* -------------------------------- the CLI ------------------------------ *)
Has(ev, x) == \E i \in 1..Len(ev) : ev[i] = x

Providers == { "openai", "google", "groq", "custom" }
HostedProviders == { "openai", "google", "groq" }
ModelArgs == { None, Some(""), Some("my-model") }
HostArgs == { None, Some("http://localhost") }
PortArgs == { None, Some(5000) }
CustomTokenArgs == { None, Some("tok") }
EndpointArgs == { None, Some("/api/v1/scan") }

ClientArgs ==
    [ provider : Providers, model : ModelArgs, host : HostArgs, port : PortArgs,
      token : CustomTokenArgs, endpoint : EndpointArgs ]

\* the command lines of the main runs
MainArgs ==
    { a \in [ provider : Providers, model : { None, Some("my-model") },
              host : { Some("http://localhost") }, port : { Some(5000) },
              token : { None }, endpoint : { Some("/api/v1/scan") },
              changes_only : BOOLEAN, directory : DirArgs,
              repo : { None, Some("o/r") }, pr_number : { None, Some(1) },
              github_token : { None, Some("tok") } ] :
        (a.repo = None) = (a.pr_number = None) }

FinishCli(name, a, e, out, obj) ==
    /\ op' = name
    /\ args' = a
    /\ env' = e
    /\ result' = out.result
    /\ raised' = out.raised
    /\ events' = out.events
    /\ backendArgs' = out.backendArgs
    /\ cwd' = out.cwd
    /\ cwd0' = cwd
    /\ sent' = << >>
    /\ client' = obj
    /\ UNCHANGED << fs, gitEnv, environ >>

\* a direct call of initialize_client
CallInitializeClient ==
    /\ Idle
    /\ \E a \in ClientArgs :
          LET built == initialize_client(a.provider, a.model, a.host, a.port,
                                         a.token, a.endpoint, environ)
          IN  FinishCli("initialize_client", a, NoEnv,
                        Outcome(<< >>, built.raised, built.events, cwd, << >>),
                        built.client)

\* one run of main()
CallMain ==
    /\ Idle
    /\ \E a \in MainArgs : \E o \in BOOLEAN : \E r \in Replies :
       \E d \in (IF a.changes_only THEN DiffChoices(a) ELSE { NoDiff }) :
       \E p \in (IF a.changes_only THEN PrChoices(a) ELSE { NoPr }) :
          LET e == Env(d, p, o, r)
              run == main(fs, gitEnv, cwd, a, e, environ)
          IN  /\ r = Reply1 \/ run.out.backendArgs # << >>
              /\ o \/ (~ a.changes_only /\ Has(run.out.events, "walk"))
              /\ d = NoDiff \/ Has(run.out.events, "diff")
              /\ p = NoPr \/ Has(run.out.events, "github")
              /\ FinishCli("main", a, e, run.out, run.client)

\* the run is over, with its result displayed or its exception reported: the
\* process and its client object are gone; the next run is a new process
\* started from either directory, in the same environment
Exit ==
    /\ ~ Idle
    /\ op' = "none"
    /\ args' = << >>
    /\ env' = NoEnv
    /\ result' = << >>
    /\ raised' = "none"
    /\ events' = << >>
    /\ backendArgs' = << >>
    /\ sent' = << >>
    /\ client' = NoClient
    /\ cwd' \in { RootDir, WorkDir }
    /\ cwd0' = cwd'
    /\ UNCHANGED << fs, gitEnv, environ >>

InitCli ==
    /\ fs = [ q \in FileSlots |-> "text" ]
    /\ gitEnv \in GitEnvs
    /\ cwd \in { RootDir, WorkDir }
    /\ client = NoClient
    /\ environ \in [ EnvVars -> { None, Some(""), Some("sk-key") } ]
    /\ InitCall

NextCli == CallInitializeClient \/ CallMain \/ Exit

SpecCli == InitCli /\ [][NextCli]_vars

(* =============================== claims =============================== *)


IsReadFiles == op = "read_files_and_generate_summary"
IsScanChanges == op = "scan_changes" \/ (op = "scan" /\ args.changes_only)
IsScanFiles == op = "scan_files" \/ (op = "scan" /\ ~ args.changes_only)
IsHosted ==
    op \in { "OpenAIClient.scan_code", "GoogleClient.scan_code", "GroqClient.scan_code" }
IsCustom == op = "CustomAIClient.scan_code"

\* a regular file whose bytes decode as UTF-8
Decodable(f, c, p) == KindAt(f, c, p) = "text"

\* the summary the File Reader contract describes: one section per list
\* position that holds a regular, decodable file, in input order
RECURSIVE Sections(_, _, _)
Sections(f, c, paths) ==
    IF paths = << >> THEN << >>
    ELSE (IF Decodable(f, c, Head(paths))
          THEN << "\n\nFile: ", basename(Head(paths)), "\n",
                  ContentOf(Resolve(c, Head(paths))) >>
          ELSE << >>)
            \o Sections(f, c, Tail(paths))

\* C1: the summary read_files_and_generate_summary returns is exactly the
\* concatenation, in input order, of one section (header naming the base name,
\* then the content) per list position holding a regular UTF-8-decodable file.
C1_SummaryIsSections ==
    IsReadFiles => result = Sections(fs, cwd0, args.file_paths)

\* C2: a path that is not a regular file, or whose opening or reading fails,
\* contributes nothing to the summary: the call does not raise and returns
\* what it returns for the list without those paths.
C2_FailedContributeNothing ==
    IsReadFiles =>
        /\ raised = "none"
        /\ result = read_files_and_generate_summary(fs, cwd0,
                        SelectSeq(args.file_paths, LAMBDA p : Decodable(fs, cwd0, p)))

\* the strategy the code selects for the arguments of the last call
Remote == UseRemote(args.repo, args.pr_number)

\* C3: scan_changes on the local strategy, with a directory the validity check
\* rejects, returns exactly "Directory is not a valid Git repository.", does
\* not raise, and runs neither the diff query, the File Reader nor the backend.
C3_NotARepository ==
    (IsScanChanges /\ ~ Remote /\ RevParse(gitEnv, cwd0, args.directory) = "nonzero")
        => /\ result = NotRepoMsg
           /\ raised = "none"
           /\ events = << "rev-parse" >>
           /\ backendArgs = << >>

C3_Witness ==
    /\ op = "scan_changes"
    /\ args.repo = None
    /\ RevParse(gitEnv, cwd0, args.directory) = "nonzero"
    /\ result = NotRepoMsg

\* the diff query ran and printed no file name
BlankDiff ==
    /\ ~ Remote
    /\ Has(events, "diff")
    /\ ~ env.diff.fails
    /\ \A i \in 1..Len(env.diff.out) : IsSpace(env.diff.out[i])

\* the resolved list of changed files is empty, whichever strategy resolved it
NothingChanged ==
    \/ BlankDiff
    \/ ~ Remote /\ Has(events, "diff") /\ env.diff.fails
    \/ Remote /\ Has(events, "github") /\ ~ env.pr.fails /\ env.pr.files = << >>

\* C4: when the resolved list of changed files is empty (a valid repository
\* whose diff prints nothing or only whitespace, or an empty pull request),
\* scan_changes returns exactly "No changes detected in the directory." and
\* the backend is not called.
C4_NoChanges ==
    (IsScanChanges /\ NothingChanged)
        => /\ result = NoChangesMsg
           /\ raised = "none"
           /\ backendArgs = << >>
           /\ ~ Has(events, "scan_code")

C4_Witness ==
    /\ op = "scan_changes"
    /\ BlankDiff
    /\ env.diff.out = << NL >>
    /\ result = NoChangesMsg

\* C5: scan_changes with repo and pr_number set and no (or an empty) token
\* returns a text containing "GitHub token is required" without raising, and
\* neither the code-hosting API nor the backend is called.
C5_TokenRequired ==
    (IsScanChanges /\ Remote /\ ~ TruthyStr(args.github_token))
        => /\ raised = "none"
           /\ Has(result, "GitHub token is required")
           /\ ~ Has(events, "github")
           /\ ~ Has(events, "scan_code")
           /\ backendArgs = << >>

C5_Witness ==
    /\ op = "scan_changes"
    /\ Remote
    /\ args.github_token = Some("")
    /\ Has(result, "GitHub token is required")

\* the first external effect of the call, "" when there was none
First(ev) == IF ev = << >> THEN "" ELSE ev[1]

LocalRan == Has(events, "rev-parse") \/ Has(events, "chdir") \/ Has(events, "diff")
ApiRan == Has(events, "github")

\* C6 (as stated): whenever both a repository identifier and a PR number are
\* supplied, whatever their values, the remote strategy resolves the changed
\* files and the local strategy never runs; whenever one of them is not
\* supplied the local strategy is used and the API is never contacted.
C6_AsStated ==
    IsScanChanges =>
        /\ (args.repo # None /\ args.pr_number # None) => ~ LocalRan
        /\ (args.repo = None \/ args.pr_number = None) => (LocalRan /\ ~ ApiRan)

\* C6 (amended): whenever both a non-empty repository identifier and a
\* non-zero PR number are supplied, the remote strategy is selected (the API
\* is the first thing contacted, or the call stops at the missing token) and
\* the local strategy never runs; in every other case (one of them missing,
\* empty or zero) the local strategy runs and the API is never contacted.
C6_Strategy ==
    IsScanChanges =>
        /\ (TruthyStr(args.repo) /\ TruthyInt(args.pr_number))
              => /\ ~ LocalRan
                 /\ cwd = cwd0
                 /\ TruthyStr(args.github_token) => First(events) = "github"
                 /\ ~ TruthyStr(args.github_token) => result = TokenMsg
        /\ ~ (TruthyStr(args.repo) /\ TruthyInt(args.pr_number))
              => /\ First(events) = "rev-parse"
                 /\ ~ ApiRan

C6_Witness ==
    /\ op = "scan"
    /\ args.changes_only
    /\ args.repo = Some("o/r")
    /\ args.pr_number = Some(1)
    /\ ApiRan
    /\ Has(events, "scan_code")

\* the file slots below the directory a call was given
Below(directory) ==
    { q \in FileSlots : IsPrefix(Resolve(cwd0, directory), q) }

\* C7: scan_files calls backend.scan_code exactly once for every tree, the
\* empty one included (the backend then gets the empty string); the summary it
\* passes holds the content of every readable file below the directory, and
\* the backend's result is returned unchanged.
C7_ScanFilesOnce ==
    IsScanFiles =>
        /\ raised = "none"
        /\ Len(backendArgs) = 1
        /\ Len(SelectSeq(events, LAMBDA x : x = "scan_code")) = 1
        /\ result = env.reply
        /\ \A q \in Below(args.directory) :
              fs[q] = "text" => Has(backendArgs[1], ContentOf(q))
        /\ (\A q \in Below(args.directory) : fs[q] = "absent")
              => backendArgs = << << >> >>

C7_Witness ==
    /\ op = "scan_files"
    /\ \A q \in Below(args.directory) : fs[q] = "absent"
    /\ backendArgs = << << >> >>
    /\ result = env.reply

\* C8: scan_code of the three hosted backends never raises: an exception of
\* the provider call, or of extracting the reply, comes back as the text
\* "Error occurred: {message}"; otherwise the first response's text is returned.
C8_HostedNeverRaises ==
    IsHosted =>
        /\ raised = "none"
        /\ env.exc # None => result = << "Error occurred: ", env.exc[1] >>
        /\ (env.exc = None /\ env.choices = << >>)
              => (Len(result) = 2 /\ First(result) = "Error occurred: ")
        /\ (env.exc = None /\ env.choices # << >>) => result = env.choices[1]

C8_Witness ==
    /\ op = "GroqClient.scan_code"
    /\ env.exc = None
    /\ env.choices = << >>
    /\ First(result) = "Error occurred: "

\* the POST failed at the transport level
TransportFailure == env.exc # None \/ env.status >= 400

\* C9: for every transport-level failure of the POST (connection error,
\* timeout, HTTP error status) CustomAIClient.scan_code returns a text that
\* begins with "Error occurred while connecting to the server:" and does not
\* propagate the exception.
C9_TransportErrorText ==
    (IsCustom /\ TransportFailure)
        => /\ raised = "none"
           /\ result.t = "str"
           /\ result.s[1] = "Error occurred while connecting to the server: "

C9_Witness ==
    /\ IsCustom
    /\ env.exc = Some("Timeout")
    /\ raised = "none"
    /\ result.s[1] = "Error occurred while connecting to the server: "

\* the response body holds the path message.content
HasContentPath(body) ==
    /\ body.t = "obj"
    /\ "message" \in DOMAIN body.m
    /\ body.m["message"].t = "obj"
    /\ "content" \in DOMAIN body.m["message"].m

\* C10: for every successful response with a JSON body, CustomAIClient.scan_code
\* returns the value at message.content when the path is present and the text
\* "No response content." when it is absent ("message" missing, without
\* "content", null or not an object), and never raises.
C10_ContentOrFallback ==
    (IsCustom /\ ~ TransportFailure)
        => /\ raised = "none"
           /\ HasContentPath(env.body)
                 => result = env.body.m["message"].m["content"]
           /\ ~ HasContentPath(env.body) => result = JStr(NoContentMsg)

\* the local strategy got as far as os.chdir
Chdired == IsScanChanges /\ Has(events, "chdir")

C14_Frame ==
    /\ cwd # cwd0
          => (IsScanChanges /\ ~ Remote
                /\ RevParse(gitEnv, cwd0, args.directory) = "ok")
    /\ Chdired
          => /\ ~ Remote
             /\ SubSeq(events, 1, 2) = << "rev-parse", "chdir" >>
             /\ RevParse(gitEnv, cwd0, args.directory) = "ok"
             /\ cwd = Resolve(cwd0, args.directory)
    /\ (IsScanFiles \/ op = "is_git_repo" \/ (IsScanChanges /\ ~ Chdired))
          => cwd = cwd0

\* C14: the working directory is changed only by the local strategy, and only
\* after the validity check passed: scan_files, the remote strategy and a
\* scan_changes that stops at not-a-repository or missing-token leave it as it
\* was; once the local strategy ran it is the target directory, and no later
\* step of the process sets it back.
C14_WorkingDirectory ==
    /\ [] C14_Frame
    /\ [][ /\ cwd0' = cwd
           /\ op' = "none" => cwd' = cwd ]_vars

C14_Witness ==
    /\ op = "scan_changes"
    /\ Chdired
    /\ cwd0 = RootDir
    /\ cwd = WorkDir

\* the names the diff query reported, relative to the top of the repository
Reported == split(strip(env.diff.out))

\* the file a reported name denotes
ChangedFile(name) == WorkDir \o name

\* C15: in scan_changes on the local strategy with a non-empty list of changed
\* files, whatever the form of the directory argument, every path handed to
\* the File Reader denotes, in the working directory in effect when it is
\* read, the file the diff reported; so every changed file that is a regular
\* decodable file has its section in the summary sent to the backend.
C15_ReadsChangedFiles ==
    (IsScanChanges /\ ~ Remote /\ Has(events, "scan_code"))
        => \A i \in 1..Len(Reported) :
              /\ Resolve(cwd, join(args.directory, Reported[i]))
                    = ChangedFile(Reported[i])
              /\ (ChangedFile(Reported[i]) \in FileSlots
                     /\ fs[ChangedFile(Reported[i])] = "text")
                    => Has(backendArgs[1], ContentOf(ChangedFile(Reported[i])))

\* C16: is_git_repo never raises: every failure of the validity check (a
\* non-zero exit, a missing directory, git failing to start) yields false, and
\* only a successful check yields true.
C16_NeverRaises ==
    op = "is_git_repo"
        => /\ raised = "none"
           /\ result = (RevParse(gitEnv, cwd0, args.directory) = "ok")

\* the request is a chat of exactly two messages: the fixed persona as the
\* system message, the code summary alone as the user message
TwoMessages(q) ==
    /\ "messages" \in DOMAIN q
    /\ Len(q.messages) = 2
    /\ q.messages[1] = [ role |-> "system", content |-> SystemPersona ]
    /\ q.messages[2] = [ role |-> "user", content |-> args.code_summary ]

\* C12 (as stated): each of the three hosted backends sends, for every code
\* summary, one request of exactly two messages (the fixed system instruction
\* and a user message that is exactly the code summary) with the configured
\* model.
C12_AsStated ==
    IsHosted =>
        /\ Len(sent) = 1
        /\ sent[1].model = client.model
        /\ TwoMessages(sent[1])

\* C12 (amended): every hosted backend sends one request per code summary to
\* the configured model; OpenAI and Groq send exactly two messages, the fixed
\* system instruction and a user message that is exactly the code summary;
\* Google sends a single prompt, the fixed instruction followed directly by
\* the code summary, with no separate user message.
C12_Requests ==
    IsHosted =>
        /\ Len(sent) = 1
        /\ sent[1].model = client.model
        /\ op \in { "OpenAIClient.scan_code", "GroqClient.scan_code" }
              => TwoMessages(sent[1])
        /\ op = "GoogleClient.scan_code"
              => /\ DOMAIN sent[1] = { "model", "prompt" }
                 /\ sent[1].prompt = GooglePersona \o args.code_summary

C12_Witness ==
    /\ op = "GoogleClient.scan_code"
    /\ args.code_summary # << >>
    /\ sent = << [ model |-> client.model,
                   prompt |-> GooglePersona \o args.code_summary ] >>

\* the environment variable a hosted provider reads its key from
KeyVar(provider) ==
    IF provider = "openai" THEN "OPENAI_API_KEY"
    ELSE IF provider = "google" THEN "GEMINI_API_KEY"
    ELSE "GROQ_API_KEY"

IsCliCall == op \in { "initialize_client", "main" }

\* the call asked for a hosted provider whose key is unset or empty
KeyMissing ==
    /\ IsCliCall
    /\ args.provider \in HostedProviders
    /\ ~ TruthyStr(environ[KeyVar(args.provider)])

\* C11: constructing a hosted backend with its API-key variable unset or empty
\* fails at construction, before the provider client object is created, so no
\* hosted backend exists without a non-empty key; in main the construction
\* comes first, so a missing key ends the run before any directory walk,
\* change resolution, file read or backend call.
C11_KeyBeforeAnything ==
    /\ client.kind \in HostedProviders
          => /\ client.api_key # ""
             /\ environ[KeyVar(client.kind)] = Some(client.api_key)
    /\ KeyMissing
          => /\ raised = "ValueError"
             /\ client = NoClient
             /\ events = << >>
             /\ backendArgs = << >>
             /\ sent = << >>
             /\ cwd = cwd0
    /\ (op = "main" /\ args.provider \in HostedProviders /\ ~ KeyMissing)
          => First(events) \in { "openai.OpenAI", "genai.configure", "groq.Groq" }

C11_Witness ==
    /\ op = "main"
    /\ args.provider = "openai"
    /\ environ["OPENAI_API_KEY"] = Some("")
    /\ raised = "ValueError"
    /\ events = << >>

\* C13: initialize_client constructs the client type of the selected provider;
\* a hosted client gets the supplied model when one is given (a non-empty
\* name) and otherwise its provider's default (gpt-4o-mini, gemini-pro,
\* llama3-8b-8192); the custom client gets model, host, port, token and
\* endpoint unchanged.
C13_RightClient ==
    (op = "initialize_client" /\ raised = "none")
        => /\ client.kind = args.provider
           /\ args.provider \in HostedProviders
                 => client.model =
                       (IF TruthyStr(args.model) THEN args.model[1]
                        ELSE IF args.provider = "openai" THEN "gpt-4o-mini"
                        ELSE IF args.provider = "google" THEN "gemini-pro"
                        ELSE "llama3-8b-8192")
           /\ args.provider = "custom"
                 => /\ client.model = args.model
                    /\ client.host = args.host
                    /\ client.port = args.port
                    /\ client.token = args.token
                    /\ client.endpoint = args.endpoint

C13_Witness ==
    /\ op = "initialize_client"
    /\ args.provider = "google"
    /\ args.model = None
    /\ client.kind = "google"
    /\ client.model = "gemini-pro"

====
